---- MODULE Spec2Model ----
(***************************************************************************)
(* pixSED: the forward pipeline of FilterList (src/filters.py) and the     *)
(* inverse reconstruction of Output.toImage (src/outputs.py).              *)
(*                                                                         *)
(* Numbers are exact rationals <<n, d>> with d > 0 in lowest terms; the    *)
(* floating-point NaN is <<0, 0>>.  Images are matrices (a sequence of     *)
(* rows); one-dimensional arrays are sequences; array indices are 0-based  *)
(* as in numpy.  A Python None is the empty tuple << >> and a present      *)
(* value x is <<x>>.                                                       *)
(***************************************************************************)
EXTENDS Integers, Sequences, FiniteSets, TLC

VARIABLES fl, heap, out, ret, age, atLink, rt, made

vars == <<fl, heap, out, ret, age, atLink, rt, made>>

----------------------------------------------------------------------------
(* Bounds of the model                                                     *)

MaxH     == 2   \* image heights 1..MaxH
MaxW     == 2   \* image widths  1..MaxW
MaxBands == 2   \* band sets of 1..MaxBands filters
NumAddrs == 3   \* array objects alive at once (two references exist)
MaxDepth == 4   \* directories below the root in the working directory of a run

----------------------------------------------------------------------------
(* None / present values                                                   *)

None      == << >>
Some(x)   == <<x>>
IsNone(o) == o = << >>
Get(o)    == o[1]

----------------------------------------------------------------------------
(* Exact arithmetic standing for numpy's float arithmetic                  *)

NaN      == <<0, 0>>
IsNaN(a) == a[2] = 0

Abs(i) == IF i < 0 THEN -i ELSE i

RECURSIVE GCD(_, _)
GCD(a, b) == IF b = 0 THEN a ELSE GCD(b, a % b)

Norm(n, d) ==
    IF d = 0 THEN NaN
    ELSE LET g == GCD(Abs(n), Abs(d))
             s == IF d < 0 THEN -1 ELSE 1
         IN  <<(s * n) \div g, (s * d) \div g>>

R(i) == <<i, 1>>

Add(a, b) == IF IsNaN(a) \/ IsNaN(b) THEN NaN
             ELSE Norm(a[1] * b[2] + b[1] * a[2], a[2] * b[2])
Mul(a, b) == IF IsNaN(a) \/ IsNaN(b) THEN NaN
             ELSE Norm(a[1] * b[1], a[2] * b[2])
\* the divisors of the program are non-zero wherever it divides a present value
Div(a, b) == IF IsNaN(a) \/ IsNaN(b) THEN NaN
             ELSE Norm(a[1] * b[2], a[2] * b[1])
AbsV(a)   == IF IsNaN(a) THEN NaN ELSE <<Abs(a[1]), a[2]>>

\* comparisons with NaN are False, as in IEEE arithmetic
IsNeg(a)   == ~IsNaN(a) /\ a[1] < 0
IsZero(a)  == ~IsNaN(a) /\ a[1] = 0
Less(a, b) == ~IsNaN(a) /\ ~IsNaN(b) /\ a[1] * b[2] < b[1] * a[2]

\* np.sqrt of a non-negative value, kept exact as the root of its radicand
Sqrt(a) == [rad |-> a]
\* a root times a non-negative rational
MulRoot(s, k) == [rad |-> Mul(s.rad, Mul(k, k))]

RECURSIVE Pow10(_)
Pow10(e) == IF e = 0 THEN 1 ELSE 10 * Pow10(e - 1)
\* 10^e for any integer e
Ten(e) == IF e >= 0 THEN R(Pow10(e)) ELSE Norm(1, Pow10(-e))

----------------------------------------------------------------------------
(* Arrays                                                                  *)

Shape(m)  == <<Len(m), Len(m[1])>>
Size(sh)  == sh[1] * sh[2]
Pixels(sh) == (1..sh[1]) \X (1..sh[2])

Matrix(sh, f(_, _)) == [r \in 1..sh[1] |-> [c \in 1..sh[2] |-> f(r, c)]]

\* a column-major flattening
FlattenColumnMajor(m) ==
    LET sh == Shape(m)
    IN  [k \in 1..Size(sh) |-> m[((k - 1) % sh[1]) + 1][((k - 1) \div sh[1]) + 1]]

\* ndarray.reshape(length): row-major flattening
Flatten(m) ==
    LET sh == Shape(m)
    IN  [k \in 1..Size(sh) |-> m[((k - 1) \div sh[2]) + 1][((k - 1) % sh[2]) + 1]]

\* ndarray.reshape(shape) of a one-dimensional array: row-major
Reshape(flat, sh) == Matrix(sh, LAMBDA r, c: flat[(r - 1) * sh[2] + c])

\* flat[boolMask]: the selected entries, in order
RECURSIVE Take(_, _)
Take(flat, sel) ==
    IF flat = << >> THEN << >>
    ELSE (IF Head(sel) THEN <<Head(flat)>> ELSE << >>) \o Take(Tail(flat), Tail(sel))

\* np.where(boolMask)[0]: the 0-based positions of the True entries, ascending
Where(sel) == Take([k \in 1..Len(sel) |-> k - 1], sel)

----------------------------------------------------------------------------
(* Filter and the static helpers of FilterList                             *)

CleanMethods == {"ZERO", "MIN"}
SEDcodes     == {"LEPHARE", "CIGALE"}

\* a masking that toggles: at the positions of mask a present value becomes
\* NaN and a NaN becomes 0
MaskFlip(arr, mask) ==
    Matrix(Shape(arr), LAMBDA r, c:
        IF ~mask[r][c] THEN arr[r][c] ELSE IF IsNaN(arr[r][c]) THEN R(0) ELSE NaN)

\* the caller's array when the callee writes into it instead of into a copy
Aliased(arr, written) == written

\* the caller's array after a call that wrote into copy.deepcopy(arr)
Deepcopied(arr, written) == arr

\* Filter._mask: a copy of arr with NaN at the positions of mask
Mask(arr, mask) ==
    Matrix(Shape(arr), LAMBDA r, c: IF mask[r][c] THEN NaN ELSE arr[r][c])

\* np.nanmin of a non-empty one-dimensional array: NaN when every entry is NaN
RECURSIVE NanMin(_)
NanMin(flat) ==
    IF Len(flat) = 1 THEN Head(flat)
    ELSE LET m == NanMin(Tail(flat))
             h == Head(flat)
         IN  IF IsNaN(h) THEN m
             ELSE IF IsNaN(m) THEN h
             ELSE IF Less(h, m) THEN h ELSE m

\* m[negMask] = x
Put(m, negMask, x) ==
    Matrix(Shape(m), LAMBDA r, c: IF negMask[r][c] THEN x ELSE m[r][c])

\* data[negMask] = x; var[negMask] = x
PutBoth(d1, v1, negMask, x) ==
    [err |-> "", data |-> Put(d1, negMask, x), var |-> Put(v1, negMask, x)]

\* the branch of clean on method, keep being data[~negMask]
CleanNeg(d1, v1, negMask, keep, method) ==
    IF method = "ZERO" THEN PutBoth(d1, v1, negMask, R(0))
    ELSE IF keep = << >> THEN [err |-> "ValueError", data |-> d1, var |-> v1]
    ELSE PutBoth(d1, v1, negMask, NanMin(keep))

\* clean once the mask is applied, negMask being (data < 0) | (var < 0)
CleanMasked(d1, v1, negMask, method) ==
    CleanNeg(d1, v1, negMask,
             Take(Flatten(d1), [k \in 1..Size(Shape(d1)) |-> ~Flatten(negMask)[k]]),
             method)

\* only the data tested for negative values
NegMaskDataOnly(d1, v1) ==
    Matrix(Shape(d1), LAMBDA r, c: IsNeg(d1[r][c]))

NegMask(d1, v1) ==
    Matrix(Shape(d1), LAMBDA r, c: IsNeg(d1[r][c]) \/ IsNeg(v1[r][c]))

\* FilterList.clean: [err, data, var]; err is "" or the exception raised
Clean(data, var, mask, method) ==
    CleanMasked(Mask(data, mask), Mask(var, mask),
                NegMask(Mask(data, mask), Mask(var, mask)), method)

\* FilterList.poissonVar: [err, var]
PoissonVar(data2, texp, texpFac) ==
    IF texp <= 0 \/ texpFac < 0
    THEN [err |-> "ValueError", var |-> data2]
    ELSE [err |-> "",
          var |-> Matrix(Shape(data2),
                         LAMBDA r, c: Div(Mul(AbsV(data2[r][c]), R(texpFac)), R(texp)))]

\* var += poissonVar(...)
AddNoise(cl, pv) ==
    IF pv.err # "" THEN [cl EXCEPT !.err = pv.err]
    ELSE [cl EXCEPT !.var = Matrix(Shape(cl.var),
                                   LAMBDA r, c: Add(cl.var[r][c], pv.var[r][c]))]

\* cleanAndNoise after clean returned cl
NoiseAfter(cl, data2, texp, texpFac) ==
    IF cl.err # "" THEN cl
    ELSE IF ~IsNone(texp) /\ ~IsNone(data2)
    THEN AddNoise(cl, PoissonVar(Get(data2), Get(texp), texpFac))
    ELSE cl

\* FilterList.cleanAndNoise: [err, data, var]
CleanAndNoise(data, data2, var, mask, cleanMethod, texp, texpFac) ==
    NoiseAfter(Clean(data, var, mask, cleanMethod), data2, texp, texpFac)

\* np.nanmean over the bands at one pixel, then np.nan_to_num(nan=maskVal)
RECURSIVE SumPresent(_), CountPresent(_)
SumPresent(vals) ==
    IF vals = << >> THEN R(0)
    ELSE IF IsNaN(Head(vals)) THEN SumPresent(Tail(vals))
    ELSE Add(Head(vals), SumPresent(Tail(vals)))
CountPresent(vals) ==
    IF vals = << >> THEN 0
    ELSE (IF IsNaN(Head(vals)) THEN 0 ELSE 1) + CountPresent(Tail(vals))

NanMeanToNum(vals, maskVal) ==
    IF CountPresent(vals) = 0 THEN R(maskVal)
    ELSE Div(SumPresent(vals), R(CountPresent(vals)))

\* the data map FilterList.computeMeanMap stores in self.meanMap
MeanMapOf(filters, mask, maskVal) ==
    Matrix(Shape(mask),
           LAMBDA r, c: NanMeanToNum([b \in 1..Len(filters) |->
                                        Mask(filters[b].data, mask)[r][c]], maskVal))

\* FilterList.scale: the scaled [data, var] (self.scaleFac is set by the caller)
Scale(data, var, norm, factor) ==
    [data |-> Matrix(Shape(data), LAMBDA r, c:
                 IF ~IsZero(norm[r][c])
                 THEN Mul(data[r][c], Div(R(factor), norm[r][c]))
                 ELSE data[r][c]),
     var  |-> Matrix(Shape(var), LAMBDA r, c:
                 IF ~IsZero(norm[r][c])
                 THEN Mul(var[r][c], Div(R(factor * factor), Mul(norm[r][c], norm[r][c])))
                 ELSE var[r][c])]

\* the positions at which no band is NaN in data or in var
NanMask(fd, fv) ==
    [k \in 1..Len(fd[1]) |-> \A b \in 1..Len(fd) : ~(IsNaN(fd[b][k]) \/ IsNaN(fv[b][k]))]

\* the vectors and positions nanMask selects
Selected(fd, fv, nanMask) ==
    [data    |-> [b \in 1..Len(fd) |-> Take(fd[b], nanMask)],
     var     |-> [b \in 1..Len(fv) |-> Take(fv[b], nanMask)],
     indices |-> Where(nanMask)]

\* FilterList.arraysTo1D with indices=True: [data, var, indices]
ArraysTo1D(data, var) ==
    Selected([b \in 1..Len(data) |-> Flatten(data[b])],
             [b \in 1..Len(var)  |-> Flatten(var[b])],
             NanMask([b \in 1..Len(data) |-> Flatten(data[b])],
                     [b \in 1..Len(var)  |-> Flatten(var[b])]))

\* photometry.countToFlux followed by .to('mJy'): zeropoints are kept in tenths
\* of a magnitude and drawn so that (zpt + 48.6) / 2.5 is an integer
FluxFactor(zpt10) == Ten(26 - ((zpt10 + 486) \div 25))
CountToFlux(d, zpt10)   == Mul(d, FluxFactor(zpt10))
CountToFluxErr(e, zpt10) == MulRoot(e, FluxFactor(zpt10))

----------------------------------------------------------------------------
(* Array objects: self.meanMap and imProp['meanMap'] are references        *)

Addrs == 1..NumAddrs

\* the addresses an optional reference holds
Refs(o) == IF IsNone(o) THEN {} ELSE {Get(o)}

\* an array already referred to is written in place when there is one
AllocInPlace(live) ==
    IF live = {} THEN 1
    ELSE CHOOSE a \in live : \A b \in live : a <= b

\* a fresh array object: an address nothing refers to
Alloc(live) == CHOOSE a \in Addrs \ live : \A b \in Addrs \ live : a <= b

\* objects nothing refers to any more are freed
Collect(h, live) == [a \in Addrs |-> IF a \in live THEN h[a] ELSE << >>]

----------------------------------------------------------------------------
(* FilterList: table factories, genTable, setCode                          *)

ColName(base, affix) == <<base, affix>>
Col(table, name) ==
    table.cols[CHOOSE i \in 1..Len(table.names) : table.names[i] = name]

\* the interleaved (value, error) entries of the bands
RECURSIVE Interleave(_, _)
Interleave(a, b) ==
    IF a = << >> THEN << >>
    ELSE <<Head(a), Head(b)>> \o Interleave(Tail(a), Tail(b))

\* the first exception raised by cleanAndNoise over the bands in order, or ""
RECURSIVE FirstErr(_)
FirstErr(results) ==
    IF results = << >> THEN ""
    ELSE IF Head(results).err # "" THEN Head(results).err
    ELSE FirstErr(Tail(results))

CleanedBands(f, cleanMethod, texpFac) ==
    [b \in 1..Len(f.filters) |->
        CleanAndNoise(f.filters[b].data, f.filters[b].data2, f.filters[b].var,
                      f.mask, cleanMethod, f.filters[b].texp, texpFac)]

\* the columns of the Cigale table from the vectors arraysTo1D returned
CigaleColumns(f, flat) ==
    [names |-> <<ColName("id", ""), ColName("redshift", "")>> \o
               Interleave([b \in 1..Len(f.filters) |-> ColName(f.filters[b].filter, "")],
                          [b \in 1..Len(f.filters) |-> ColName(f.filters[b].filter, "_err")]),
     cols  |-> <<flat.indices, [i \in 1..Len(flat.indices) |-> f.redshift]>> \o
               Interleave([b \in 1..Len(f.filters) |->
                             [i \in 1..Len(flat.indices) |->
                                CountToFlux(flat.data[b][i], f.filters[b].zpt)]],
                          [b \in 1..Len(f.filters) |->
                             [i \in 1..Len(flat.indices) |->
                                CountToFluxErr(Sqrt(flat.var[b][i]), f.filters[b].zpt)]])]

\* _CigaleTableFactory after its cleanAndNoise loop returned cn
CigaleFromCleaned(f, cn) ==
    IF FirstErr(cn) # "" THEN [err |-> FirstErr(cn), table |-> None]
    ELSE [err   |-> "",
          table |-> Some(CigaleColumns(f,
                      ArraysTo1D([b \in 1..Len(cn) |-> cn[b].data],
                                 [b \in 1..Len(cn) |-> cn[b].var])))]

\* FilterList._CigaleTableFactory: [err, table]
CigaleTableFactory(f, cleanMethod, texpFac) ==
    CigaleFromCleaned(f, CleanedBands(f, cleanMethod, texpFac))

\* _LePhareTableFactory on its first band, cn being what cleanAndNoise
\* returned: scale stores self.scaleFac, then self.arrayTo1D, which FilterList
\* does not define, raises AttributeError
LePhareFirstBand(f, h, cn, scaleFactor) ==
    IF cn.err # "" THEN [err |-> cn.err, fl |-> f, heap |-> h]
    ELSE [err |-> "AttributeError", fl |-> [f EXCEPT !.scaleFac = Some(scaleFactor)],
          heap |-> h]

\* FilterList._LePhareTableFactory up to the exception that ends it, a being
\* the new array computeMeanMap stores in self.meanMap: [err, fl, heap]
LePhareTableFactory(f, h, a, cleanMethod, scaleFactor, texpFac) ==
    LePhareFirstBand([f EXCEPT !.meanMap = Some(a)],
                     [h EXCEPT ![a] = MeanMapOf(f.filters, f.mask, 0)],
                     CleanAndNoise(f.filters[1].data, f.filters[1].data2, f.filters[1].var,
                                   f.mask, cleanMethod, f.filters[1].texp, texpFac),
                     scaleFactor)

\* self.table = Table(col, ...) unless the factory raised
StoreTable(f, h, t) ==
    IF t.err # "" THEN [err |-> t.err, fl |-> f, heap |-> h]
    ELSE [err |-> "", fl |-> [f EXCEPT !.table = t.table], heap |-> h]

\* FilterList.genTable: [err, fl, heap]
GenTableOf(f, h, live, cleanMethod, scaleFactor, texpFac) ==
    IF Len(f.filters) < 1 THEN [err |-> "ValueError", fl |-> f, heap |-> h]
    ELSE IF f.code = "LEPHARE"
    THEN LePhareTableFactory(f, h, Alloc(live), cleanMethod, scaleFactor, texpFac)
    ELSE StoreTable(f, h, CigaleTableFactory(f, cleanMethod, texpFac))

\* FilterList.setCode with a SEDcode: [err, fl, heap]
SetCodeOf(f, h, live, code, cleanMethod, scaleFactor, texpFac) ==
    IF code \notin SEDcodes THEN [err |-> "TypeError", fl |-> f, heap |-> h]
    ELSE GenTableOf([f EXCEPT !.code = code], h, live, cleanMethod, scaleFactor, texpFac)

\* Catalogue.__init__ through CigaleCat or LePhareCat: [err, cat]
CatalogueOf(kind, name, table) ==
    IF IsNone(table) THEN [err |-> "TypeError", cat |-> None]
    ELSE [err |-> "", cat |-> Some([kind |-> kind, name |-> name, data |-> Get(table)])]

\* FilterList._toCigaleCat
ToCigaleCatOf(f, fname) ==
    IF f.code # "CIGALE" THEN [err |-> "ValueError", cat |-> None]
    ELSE CatalogueOf("CigaleCat", <<fname, ".mag">>, f.table)

\* FilterList._toLePhareCat with its default table properties
ToLePhareCatOf(f, fname) ==
    IF f.code # "LEPHARE" THEN [err |-> "ValueError", cat |-> None]
    ELSE CatalogueOf("LePhareCat", <<fname, ".in">>, f.table)

\* a toCatalogue that asks each engine for the other engine's catalogue
ToCatalogueSwapped(f, fname) ==
    IF f.code = "LEPHARE" THEN ToCigaleCatOf(f, fname) ELSE ToLePhareCatOf(f, fname)

\* FilterList.toCatalogue
ToCatalogueOf(f, fname) ==
    IF f.code = "LEPHARE" THEN ToLePhareCatOf(f, fname)
    ELSE IF f.code = "CIGALE" THEN ToCigaleCatOf(f, fname)
    ELSE [err |-> "ValueError", cat |-> None]

\* FilterList.__init__ on filters that pass _buildFilters and _checkFilters
NewFilterList(filters, mask, code, redshift, cleanMethod, scaleFactor, texpFac) ==
    SetCodeOf([filters |-> filters, mask |-> mask, redshift |-> redshift,
               shape |-> Shape(filters[1].data), code |-> code,
               table |-> None, meanMap |-> None, scaleFac |-> None],
              [a \in Addrs |-> << >>], {}, code, cleanMethod, scaleFactor, texpFac)

----------------------------------------------------------------------------
(* Output, CigaleOutput, LePhareOutput                                     *)

TupleShape(dims) == [type |-> "tuple", dims |-> dims]
ListShape(dims)  == [type |-> "list",  dims |-> dims]

\* Output.__init__ and load: nothing linked, the results table read
NewOutputOf(kind, ids, vals) ==
    [kind   |-> kind,
     imProp |-> [shape |-> None, scale |-> None, meanMap |-> None],
     table  |-> [ids |-> ids, vals |-> vals]]

\* Output.link (LePhareOutput) and CigaleOutput.link
LinkOf(o, f) ==
    IF o.kind = "CIGALE"
    THEN [o EXCEPT !.imProp.shape = Some(TupleShape(f.shape))]
    ELSE [o EXCEPT !.imProp = [shape   |-> Some(TupleShape(f.shape)),
                               scale   |-> f.scaleFac,
                               meanMap |-> f.meanMap]]

\* data = np.full(n, nan); data[indices] = vals (a repeated index keeps the
\* last value assigned)
Scatter(n, indices, vals) ==
    [k \in 1..n |->
        LET rows == {i \in 1..Len(indices) : indices[i] = k - 1}
        IN  IF rows = {} THEN NaN
            ELSE vals[CHOOSE i \in rows : \A j \in rows : j <= i]]

Raise(e) == [err |-> e, img |-> None]

\* self.imProp[key] read by toImage
ImProp(o, key) == o.imProp[key]

\* the linked value, or else the explicit argument
ResolveLinkedFirst(arg, linked) == IF ~IsNone(linked) THEN linked ELSE arg

\* an explicit argument, or else the linked value
Resolve(arg, linked) == IF ~IsNone(arg) THEN arg ELSE linked

\* data[indices] = ... on an array of n entries
OutOfRange(indices, n) == \E i \in 1..Len(indices) : indices[i] >= n

\* CigaleOutput.toImage once the shape is resolved
CigaleImage(o, sh) ==
    IF OutOfRange(o.table.ids, sh.dims[1] * sh.dims[2]) THEN Raise("IndexError")
    ELSE [err |-> "",
          img |-> Some(Reshape(Scatter(sh.dims[1] * sh.dims[2], o.table.ids, o.table.vals),
                               sh.dims))]

\* CigaleOutput.toImage with a str name that is a column: [err, img]
CigaleToImage(o, shape) ==
    IF IsNone(ImProp(o, "shape")) /\ IsNone(shape) THEN Raise("ValueError")
    ELSE IF ~IsNone(shape) /\ Len(Get(shape).dims) # 2 THEN Raise("ValueError")
    ELSE CigaleImage(o, Get(Resolve(shape, ImProp(o, "shape"))))

\* data *= meanMap where meanMap != 0
TimesMeanMap(data, mm) ==
    Matrix(Shape(data), LAMBDA r, c:
        IF ~IsZero(mm[r][c]) THEN Mul(data[r][c], mm[r][c]) ELSE data[r][c])

\* LePhareOutput.toImage once shape, scaleFactor and meanMap are resolved
\* (mm is None or the array's content)
LePhareImage(o, sh, sf, mm) ==
    \* meanMap.shape of None
    IF IsNone(mm) THEN Raise("AttributeError")
    \* shape != meanMap.shape: a list never equals a tuple
    ELSE IF sh.type # "tuple" \/ sh.dims # Shape(Get(mm)) THEN Raise("ValueError")
    ELSE IF OutOfRange(o.table.ids, sh.dims[1] * sh.dims[2]) THEN Raise("IndexError")
    ELSE [err |-> "",
          img |-> Some(TimesMeanMap(
                     Reshape(Scatter(sh.dims[1] * sh.dims[2], o.table.ids,
                                     [i \in 1..Len(o.table.vals) |->
                                        Div(o.table.vals[i], R(sf))]),
                             sh.dims),
                     Get(mm)))]

\* the content of the array a reference holds
Deref(h, ref) == IF IsNone(ref) THEN None ELSE Some(h[Get(ref)])

\* LePhareOutput.toImage with a str name that is a column; shape, scaleFactor
\* and meanMap are None or of the accepted types: [err, img]
LePhareToImage(o, h, shape, scaleFactor, meanMap) ==
    IF IsNone(ImProp(o, "shape")) /\ IsNone(shape) THEN Raise("ValueError")
    ELSE IF ~IsNone(shape) /\ Len(Get(shape).dims) # 2 THEN Raise("ValueError")
    ELSE IF IsNone(ImProp(o, "scale")) /\ IsNone(scaleFactor) THEN Raise("ValueError")
    ELSE IF ~IsNone(scaleFactor) /\ Get(scaleFactor) <= 0 THEN Raise("ValueError")
    ELSE LePhareImage(o, Get(Resolve(shape, ImProp(o, "shape"))),
                      Get(Resolve(scaleFactor, ImProp(o, "scale"))),
                      Resolve(meanMap, Deref(h, ImProp(o, "meanMap"))))

ToImageOf(o, h, shape, scaleFactor, meanMap) ==
    IF o.kind = "CIGALE" THEN CigaleToImage(o, shape)
    ELSE LePhareToImage(o, h, shape, scaleFactor, meanMap)

----------------------------------------------------------------------------
(* Inputs: images, masks, filters and call arguments                       *)

Shapes == (1..MaxH) \X (1..MaxW)

\* the 1-based row-major position of pixel (r, c)
Pos(sh, r, c) == (r - 1) * sh[2] + c

\* flux maps
\*   ramp: 1, 2, 3, ...            anti: -1, -2, -3, ...
\*   dip : -1, 2, 3, ...           zero: 0, 2, 3, ...
\*   hole: 1, ..., 1, NaN (missing at the last pixel)
DataMap(kind, sh) ==
    Matrix(sh, LAMBDA r, c:
        LET p == Pos(sh, r, c)
        IN  CASE kind = "ramp" -> R(p)
              [] kind = "anti" -> R(-p)
              [] kind = "dip"  -> IF p = 1 THEN R(-1) ELSE R(p)
              [] kind = "zero" -> IF p = 1 THEN R(0) ELSE R(p)
              [] kind = "hole" -> IF p = Size(sh) THEN NaN ELSE R(1))

\* variance maps
\*   one : 1, 1, ...               negl: 4, ..., 4, -1 (negative at the last pixel)
\*   negf: -1, 1, ..., 1 (negative at the first pixel)
VarMap(kind, sh) ==
    Matrix(sh, LAMBDA r, c:
        IF kind = "negl" /\ Pos(sh, r, c) = Size(sh) THEN R(-1)
        ELSE IF kind = "negf" /\ Pos(sh, r, c) = 1 THEN R(-1)
        ELSE IF kind = "negl" THEN R(4) ELSE R(1))

\* the fields of a Filter after Filter.__init__; zpt is kept in tenths
FilterOf(name, zpt10, data, var, data2, texp) ==
    [filter |-> name, zpt |-> zpt10, data |-> data, var |-> var,
     data2 |-> data2, texp |-> texp]

BandKinds == {"ramp", "anti", "dip", "zero", "hole", "negl", "shot", "negf", "shotnan", "shot0"}

\* the b-th filter of a list, of the given kind
Band(kind, b, sh) ==
    LET name == IF b = 1 THEN "F1" ELSE IF b = 2 THEN "F2" ELSE "F3"
        zpt  == IF b = 1 THEN 264 ELSE 239
    IN  CASE kind = "negl" -> FilterOf(name, zpt, DataMap("ramp", sh), VarMap("negl", sh), None, None)
          [] kind = "shot" -> FilterOf(name, zpt, DataMap("ramp", sh), VarMap("one", sh),
                                       Some(DataMap("anti", sh)), Some(2))
          [] kind = "negf" -> FilterOf(name, zpt, DataMap("ramp", sh), VarMap("negf", sh), None, None)
          [] kind = "shotnan" -> FilterOf(name, zpt, DataMap("ramp", sh), VarMap("one", sh),
                                          Some(DataMap("hole", sh)), Some(2))
          [] kind = "shot0" -> FilterOf(name, zpt, DataMap("ramp", sh), VarMap("one", sh),
                                        Some(DataMap("anti", sh)), Some(0))
          [] OTHER         -> FilterOf(name, zpt, DataMap(kind, sh), VarMap("one", sh), None, None)

\* the filter lists of a sequence of kinds
FilterLists(kindSeqs, sh) ==
    {[b \in 1..Len(ks) |-> Band(ks[b], b, sh)] : ks \in kindSeqs}

KindSeqs(first, later) ==
    UNION {{ks \in [1..n -> first \cup later] : ks[1] \in first /\ \A b \in 2..n : ks[b] \in later}
           : n \in 1..MaxBands}

Masks(sh)     == [1..sh[1] -> [1..sh[2] -> BOOLEAN]]
\* the masks that cover at most MaxW pixels, or every pixel
FewMasks(sh)  == {m \in Masks(sh) :
                     Cardinality({p \in Pixels(sh) : m[p[1]][p[2]]}) \in (0..MaxW) \cup {Size(sh)}}
NoMask(sh)    == Matrix(sh, LAMBDA r, c: FALSE)
FirstMask(sh) == Matrix(sh, LAMBDA r, c: Pos(sh, r, c) = 1)

ScaleFactors == {1, 100}
TexpFacs     == {0, 4}
Redshifts    == {2}
MaskVals     == {1}
ResultGains  == {3}

----------------------------------------------------------------------------
(* State                                                                   *)

\* fl     the FilterList
\* heap   the array objects self.meanMap and imProp['meanMap'] refer to
\* out    the Output object (kind "none": not built yet)
\* ret    the last call: its name, arguments, exception ("" for none), result
\* age    which configure call each derived field of fl was stored by
\* atLink what the last link stored, and toImage() right after it
\* rt     a band taken through scale and back through toImage
\* made   what a constructor or a helper called on its own was given and returned

Call(op, err) ==
    [op |-> op, err |-> err, shape |-> None, scaleFactor |-> None,
     meanMap |-> None, img |-> None]

NoOutput == NewOutputOf("none", << >>, << >>)

Live(f, o) == Refs(f.meanMap) \cup Refs(o.imProp.meanMap)

\* the constructor returned: a FilterList exists
Constructed(new) ==
    /\ new.err = ""
    /\ fl = new.fl
    /\ heap = new.heap

InitOf(shapes, kindSeqs, masksOf(_)) ==
    /\ \E sh \in shapes :
       \E filters \in FilterLists(kindSeqs, sh), mask \in masksOf(sh) :
       \E code \in SEDcodes, cm \in CleanMethods, sf \in ScaleFactors, tf \in TexpFacs,
          z \in Redshifts :
          Constructed(NewFilterList(filters, mask, code, z, cm, sf, tf))
    /\ out = NoOutput
    /\ ret = Call("__init__", "")
    /\ age = [table |-> "fresh", meanMap |-> "none", scaleFac |-> "none"]
    /\ atLink = None
    /\ rt = None
    /\ made = None

----------------------------------------------------------------------------
(* Actions                                                                 *)

\* a new configure call makes what earlier calls stored old
Older(a) == [k \in DOMAIN a |-> IF a[k] = "fresh" THEN "stale" ELSE a[k]]

Configured(res, op) ==
    /\ fl' = res.fl
    /\ heap' = Collect(res.heap, Live(res.fl, out))
    /\ ret' = Call(op, res.err)
    /\ age' = [table    |-> IF res.err = "" THEN "fresh" ELSE Older(age).table,
               meanMap  |-> IF res.fl.meanMap # fl.meanMap THEN "fresh"
                            ELSE Older(age).meanMap,
               scaleFac |-> IF res.fl.code = "LEPHARE" /\ res.err = "AttributeError"
                            THEN "fresh" ELSE Older(age).scaleFac]
    /\ UNCHANGED <<out, atLink, rt, made>>

\* flist.setCode(code, cleanMethod=, scaleFactor=, texpFac=)
SetCode(code, cm, sf, tf) ==
    Configured(SetCodeOf(fl, heap, Live(fl, out), code, cm, sf, tf), "setCode")

\* flist.genTable(cleanMethod=, scaleFactor=, texpFac=)
GenTable(cm, sf, tf) ==
    Configured(GenTableOf(fl, heap, Live(fl, out), cm, sf, tf), "genTable")

\* flist.computeMeanMap(maskVal=)
ComputeMeanMap(maskVal) ==
    /\ fl' = [fl EXCEPT !.meanMap = Some(Alloc(Live(fl, out)))]
    /\ heap' = Collect([heap EXCEPT ![Alloc(Live(fl, out))] =
                           MeanMapOf(fl.filters, fl.mask, maskVal)],
                       Live(fl', out))
    /\ ret' = Call("computeMeanMap", "")
    /\ age' = [age EXCEPT !.meanMap = "direct"]
    /\ UNCHANGED <<out, atLink, rt, made>>

\* one column of results, a value for each row
Results(ids, gain) == [i \in 1..Len(ids) |-> R(gain * (ids[i] + 1))]

\* the table of the external engine's results for the rows of the current
\* table: LePhareOutput(file) or CigaleOutput(file)
NewOutput(kind, gain) ==
    /\ out.kind = "none"
    /\ ~IsNone(fl.table)
    /\ out' = NewOutputOf(kind, Col(Get(fl.table), ColName("id", "")),
                          Results(Col(Get(fl.table), ColName("id", "")), gain))
    /\ ret' = Call("Output", "")
    /\ UNCHANGED <<fl, heap, age, atLink, rt, made>>

\* output.link(flist)
Link ==
    /\ out.kind # "none"
    /\ out' = LinkOf(out, fl)
    /\ heap' = Collect(heap, Live(fl, out'))
    /\ ret' = Call("link", "")
    /\ atLink' = Some([shape |-> out'.imProp.shape,
                       scale |-> out'.imProp.scale,
                       meanMap |-> Deref(heap, out'.imProp.meanMap),
                       image |-> ToImageOf(out', heap, None, None, None)])
    /\ UNCHANGED <<fl, age, rt, made>>

\* output.toImage(name, shape=, scaleFactor=, meanMap=)
ToImage(shape, scaleFactor, meanMap) ==
    /\ out.kind # "none"
    /\ ret' = [Call("toImage", "") EXCEPT
                 !.shape = shape, !.scaleFactor = scaleFactor, !.meanMap = meanMap,
                 !.err = ToImageOf(out, heap, shape, scaleFactor, meanMap).err,
                 !.img = ToImageOf(out, heap, shape, scaleFactor, meanMap).img]
    /\ UNCHANGED <<fl, heap, out, age, atLink, rt, made>>

\* the explicit arguments toImage is called with
ShapeArgs == {None} \cup
             {Some(TupleShape(<<sh[1], sh[2]>>)) : sh \in {fl.shape, <<fl.shape[1], fl.shape[2] + 1>>}} \cup
             {Some(ListShape(<<fl.shape[1], fl.shape[2]>>)),
              Some(TupleShape(<<fl.shape[1], fl.shape[2], 1>>)),
              Some(TupleShape(<<1, 1>>))}
ScaleArgs == {None, Some(0), Some(5)}
MeanArgs  == {None, Some(Matrix(fl.shape, LAMBDA r, c: R(Pos(fl.shape, r, c) - 1))),
              Some(Matrix(<<fl.shape[1], fl.shape[2] + 1>>, LAMBDA r, c: R(2)))}

----------------------------------------------------------------------------
(* Spec: the life of one FilterList and one Output                         *)

FullShape == <<MaxH, MaxW>>
LifeKinds == {<<"ramp">>, <<"dip">>, <<"ramp", "anti">>}

Init == InitOf({FullShape}, LifeKinds, LAMBDA sh: {NoMask(sh), FirstMask(sh)})

Next ==
    \/ \E code \in SEDcodes, cm \in CleanMethods, sf \in ScaleFactors : SetCode(code, cm, sf, 0)
    \/ \E sf \in ScaleFactors : GenTable("ZERO", sf, 0)
    \/ \E maskVal \in MaskVals : ComputeMeanMap(maskVal)
    \/ \E kind \in SEDcodes, gain \in ResultGains : NewOutput(kind, gain)
    \/ Link
    \/ ToImage(None, None, None)

Spec == Init /\ [][Next]_vars

----------------------------------------------------------------------------
(* Claims checked under Spec                                               *)

ConfigureOps == {"setCode", "genTable"}

\* C3: after a configure call that succeeded, table, meanMap and scaleFac all
\* belong to that call: none of them is left over from an earlier call.
C3_AllFromLastCall ==
    (ret.op \in ConfigureOps /\ ret.err = "") =>
        /\ age.table = "fresh"
        /\ age.meanMap # "stale"
        /\ age.scaleFac # "stale"

\* the table values of Engine B are the cleaned counts converted to mJy:
\* neither divided by a normalization map nor multiplied by a scale factor
Unnormalized(f, cleanMethod, texpFac) ==
    f.table = CigaleTableFactory(f, cleanMethod, texpFac).table

\* C7: after a successful configure with Engine B (CIGALE), on a fresh or a
\* reconfigured FilterList, scaleFac is 1 and the table is not normalized.
C7_CigaleScaleIsOne ==
    (ret.op \in ConfigureOps \cup {"__init__"} /\ ret.err = "" /\ fl.code = "CIGALE") =>
        /\ fl.scaleFac = Some(1)
        /\ \E cm \in CleanMethods, tf \in TexpFacs : Unnormalized(fl, cm, tf)

\* C4: once linked, the snapshot {shape, scale, meanMap} of the Output keeps
\* the values it had at link time whatever is called on the FilterList
\* afterwards, and toImage without overrides returns what it returned right
\* after link.
C4_SnapshotDecoupled ==
    ~IsNone(atLink) =>
        /\ out.imProp.shape = Get(atLink).shape
        /\ out.imProp.scale = Get(atLink).scale
        /\ Deref(heap, out.imProp.meanMap) = Get(atLink).meanMap
        /\ ToImageOf(out, heap, None, None, None) = Get(atLink).image

\* C4 witness: a linked LePhareOutput whose toImage succeeds, after the
\* FilterList was reconfigured to another scale factor and another meanMap
C4_Witness ==
    /\ ~IsNone(atLink)
    /\ out.kind = "LEPHARE"
    /\ Get(atLink).image.err = ""
    /\ ret.op = "setCode"
    /\ ~IsNone(out.imProp.scale)
    /\ fl.scaleFac # out.imProp.scale
    /\ ~IsNone(out.imProp.meanMap)
    /\ fl.meanMap # out.imProp.meanMap
    /\ Deref(heap, fl.meanMap) # Deref(heap, out.imProp.meanMap)

----------------------------------------------------------------------------
(* SpecInv: toImage called with every combination of explicit arguments    *)

InitInv == InitOf({FullShape}, {<<"ramp">>}, LAMBDA sh: {FirstMask(sh)})

NextInv ==
    \/ \E code \in SEDcodes, sf \in ScaleFactors : SetCode(code, "ZERO", sf, 0)
    \/ \E kind \in SEDcodes, gain \in ResultGains : NewOutput(kind, gain)
    \/ Link
    \/ \E shape \in ShapeArgs, sf \in ScaleArgs, mm \in MeanArgs : ToImage(shape, sf, mm)

SpecInv == InitInv /\ [][NextInv]_vars

\* the value a call is to use: the argument when given, else the snapshot's
Given(arg, snapshot) == IF IsNone(arg) THEN snapshot ELSE arg

\* the map the results describe: row i at the pixel its identifier names,
\* divided by sf and multiplied by the normalization where there is one and
\* it is not zero, missing elsewhere
ExpectedImage(o, dims, sf, mm) ==
    Matrix(dims, LAMBDA r, c:
        IF \A i \in 1..Len(o.table.ids) : o.table.ids[i] # Pos(dims, r, c) - 1 THEN NaN
        ELSE IF o.kind = "CIGALE"
        THEN o.table.vals[CHOOSE i \in 1..Len(o.table.ids) : o.table.ids[i] = Pos(dims, r, c) - 1]
        ELSE IF IsNone(mm) \/ IsZero(Get(mm)[r][c])
        THEN Div(o.table.vals[CHOOSE i \in 1..Len(o.table.ids) :
                                o.table.ids[i] = Pos(dims, r, c) - 1], R(sf))
        ELSE Mul(Div(o.table.vals[CHOOSE i \in 1..Len(o.table.ids) :
                                    o.table.ids[i] = Pos(dims, r, c) - 1], R(sf)),
                 Get(mm)[r][c]))

GivenScale(o, call) ==
    IF o.kind = "CIGALE" THEN 1 ELSE Get(Given(call.scaleFactor, o.imProp.scale))

ResolvedAsGiven(o, h, call) ==
    /\ (IsNone(call.shape) /\ IsNone(o.imProp.shape)) => call.err = "ValueError"
    /\ (o.kind = "LEPHARE" /\ IsNone(call.scaleFactor) /\ IsNone(o.imProp.scale)) =>
           call.err = "ValueError"
    /\ call.err = "" =>
           call.img = Some(ExpectedImage(o, Get(Given(call.shape, o.imProp.shape)).dims,
                                         GivenScale(o, call),
                                         Given(call.meanMap, Deref(h, o.imProp.meanMap))))

\* C8: every toImage call takes shape, scaleFactor and normalization map from
\* the explicit argument when given and from the linked snapshot otherwise,
\* fails when shape (for LePhareOutput also scaleFactor) comes from neither,
\* and leaves the Output as it was.
C8_ExplicitOverLinked ==
    [][ret'.op = "toImage" => (out' = out /\ ResolvedAsGiven(out, heap, ret'))]_vars

\* C8 witness: a linked LePhareOutput returned a map for a shape, a scale
\* factor and a normalization map that all differ from the linked ones
C8_Witness ==
    /\ ret.op = "toImage" /\ ret.err = ""
    /\ out.kind = "LEPHARE"
    /\ ~IsNone(out.imProp.shape) /\ ~IsNone(out.imProp.scale) /\ ~IsNone(out.imProp.meanMap)
    /\ ~IsNone(ret.shape) /\ ret.shape # out.imProp.shape
    /\ ~IsNone(ret.scaleFactor) /\ ret.scaleFactor # out.imProp.scale
    /\ ~IsNone(ret.meanMap) /\ ret.meanMap # Deref(heap, out.imProp.meanMap)

\* a call of LePhareOutput.toImage with a usable shape and scale factor
ValidShapeAndScale(o, call) ==
    /\ call.op = "toImage" /\ o.kind = "LEPHARE"
    /\ ~IsNone(Given(call.shape, o.imProp.shape))
    /\ Len(Get(Given(call.shape, o.imProp.shape)).dims) = 2
    /\ ~OutOfRange(o.table.ids, Get(Given(call.shape, o.imProp.shape)).dims[1]
                                * Get(Given(call.shape, o.imProp.shape)).dims[2])
    /\ ~IsNone(Given(call.scaleFactor, o.imProp.scale))
    /\ Get(Given(call.scaleFactor, o.imProp.scale)) > 0

\* C9: LePhareOutput.toImage with a valid shape and scaleFactor and no
\* normalization map from either source returns the scattered map without
\* the normalization step instead of failing.
C9_NoMeanMapSkips ==
    (ValidShapeAndScale(out, ret) /\ IsNone(ret.meanMap) /\ IsNone(out.imProp.meanMap)) =>
        /\ ret.err = ""
        /\ ret.img = Some(ExpectedImage(out, Get(Given(ret.shape, out.imProp.shape)).dims,
                                        GivenScale(out, ret), None))

\* C10: LePhareOutput.toImage called with usable arguments fails exactly when
\* the resolved shape and the shape of the resolved normalization map differ,
\* the shape being a tuple or a list.
C10_FailsIffMismatch ==
    (ValidShapeAndScale(out, ret)
        /\ ~IsNone(Given(ret.meanMap, Deref(heap, out.imProp.meanMap)))) =>
        (ret.err # "" <=>
            Get(Given(ret.shape, out.imProp.shape)).dims
                # Shape(Get(Given(ret.meanMap, Deref(heap, out.imProp.meanMap)))))

----------------------------------------------------------------------------
(* SpecPipe: from images and masks of every kind to the table and back     *)

PipeShapes == {<<1, MaxW>>, <<MaxH, MaxW>>}
PipeKinds  == {<<"ramp">>, <<"anti">>, <<"dip">>, <<"zero">>, <<"hole">>, <<"negl">>,
               <<"shot">>, <<"ramp", "anti">>, <<"dip", "hole">>}

InitPipe == InitOf(PipeShapes, PipeKinds, FewMasks)

NextPipe ==
    \/ \E code \in SEDcodes, cm \in CleanMethods, tf \in TexpFacs :
          out.kind = "none" /\ SetCode(code, cm, 100, tf)
    \/ \E kind \in SEDcodes, gain \in ResultGains : NewOutput(kind, gain)
    \/ Link
    \/ ToImage(None, None, None)

SpecPipe == InitPipe /\ [][NextPipe]_vars

\* the pixel (r, c) of an image of width w whose row-major position is k
RowOf(k, w) == (k \div w) + 1
ColOf(k, w) == (k % w) + 1

Ids(t) == Col(t, ColName("id", ""))

\* the identifiers are strictly increasing positions of the image
IdsInOrder(f, ids) ==
    /\ \A i \in 1..Len(ids) : ids[i] \in 0..(Size(f.shape) - 1)
    /\ \A i, j \in 1..Len(ids) : i < j => ids[i] < ids[j]

\* row i holds, for every band, the flux of the pixel its identifier names
\* (where cleaning keeps the pixel's count, i.e. data and variance >= 0)
RowsFromTheirPixel(f, t) ==
    \A i \in 1..Len(Ids(t)), b \in 1..Len(f.filters) :
        /\ ~f.mask[RowOf(Ids(t)[i], f.shape[2])][ColOf(Ids(t)[i], f.shape[2])]
        /\ (/\ ~IsNeg(f.filters[b].data[RowOf(Ids(t)[i], f.shape[2])][ColOf(Ids(t)[i], f.shape[2])])
            /\ ~IsNeg(f.filters[b].var[RowOf(Ids(t)[i], f.shape[2])][ColOf(Ids(t)[i], f.shape[2])]))
           => Col(t, ColName(f.filters[b].filter, ""))[i] =
                 CountToFlux(f.filters[b].data[RowOf(Ids(t)[i], f.shape[2])]
                                              [ColOf(Ids(t)[i], f.shape[2])],
                             f.filters[b].zpt)

\* the value toImage gives a row: the result, for LePhareOutput divided by the
\* scale factor and multiplied by the normalization where that is not zero
RowValue(o, h, i, r, c) ==
    IF o.kind = "CIGALE" THEN o.table.vals[i]
    ELSE IF IsZero(h[Get(o.imProp.meanMap)][r][c])
    THEN Div(o.table.vals[i], R(Get(o.imProp.scale)))
    ELSE Mul(Div(o.table.vals[i], R(Get(o.imProp.scale))), h[Get(o.imProp.meanMap)][r][c])

\* every row is at the pixel its identifier names and nothing is elsewhere
RowsAtTheirPixel(o, h, img) ==
    /\ \A i \in 1..Len(o.table.ids) :
          img[RowOf(o.table.ids[i], Len(img[1]))][ColOf(o.table.ids[i], Len(img[1]))]
              = RowValue(o, h, i, RowOf(o.table.ids[i], Len(img[1])),
                         ColOf(o.table.ids[i], Len(img[1])))
    /\ \A r \in 1..Len(img), c \in 1..Len(img[1]) :
          (\A i \in 1..Len(o.table.ids) : o.table.ids[i] # (r - 1) * Len(img[1]) + c - 1)
              => IsNaN(img[r][c])

\* C2: the identifier of every table row is the row-major position r*W + c of
\* the pixel its values come from, identifiers are strictly increasing within
\* [0, H*W), and toImage puts row i at pixel (r, c) and nothing anywhere else.
C2_IndexFidelity ==
    /\ ~IsNone(fl.table) =>
          /\ IdsInOrder(fl, Ids(Get(fl.table)))
          /\ RowsFromTheirPixel(fl, Get(fl.table))
    /\ (ret.op = "toImage" /\ ret.err = "") => RowsAtTheirPixel(out, heap, Get(ret.img))

\* C2 witness: toImage returned a map of several rows and columns from a
\* table of at least two rows that leaves out a pixel before its last row
C2_Witness ==
    /\ ret.op = "toImage" /\ ret.err = ""
    /\ fl.shape = FullShape
    /\ Len(out.table.ids) >= 2
    /\ out.table.ids = Ids(Get(fl.table))
    /\ \E k \in 0..(Size(fl.shape) - 1) :
          /\ \A i \in 1..Len(out.table.ids) : out.table.ids[i] # k
          /\ \E i \in 1..Len(out.table.ids) : out.table.ids[i] > k

\* no unmasked pixel of any band is missing
AllFinite(f) ==
    \A b \in 1..Len(f.filters), r \in 1..f.shape[1], c \in 1..f.shape[2] :
        ~f.mask[r][c] => (~IsNaN(f.filters[b].data[r][c]) /\ ~IsNaN(f.filters[b].var[r][c]))

Masked(f) == {p \in Pixels(f.shape) : f.mask[p[1]][p[2]]}

\* C5: when the unmasked pixels are all finite and the mask covers k of the N
\* pixels, the table has N - k rows, none at a masked position, and toImage
\* gives a map of the original shape that is NaN exactly at the masked pixels.
C5_RowsAndHoles ==
    (AllFinite(fl) /\ ~IsNone(fl.table)) =>
        /\ Len(Ids(Get(fl.table))) = Size(fl.shape) - Cardinality(Masked(fl))
        /\ \A i \in 1..Len(Ids(Get(fl.table))) :
              ~fl.mask[RowOf(Ids(Get(fl.table))[i], fl.shape[2])]
                      [ColOf(Ids(Get(fl.table))[i], fl.shape[2])]
        /\ (ret.op = "toImage" /\ ret.err = "") =>
              /\ Shape(Get(ret.img)) = fl.shape
              /\ \A p \in Pixels(fl.shape) :
                    IsNaN(Get(ret.img)[p[1]][p[2]]) <=> fl.mask[p[1]][p[2]]

\* C6: genTable, called directly or by setCode, never raises and produces a
\* table, for each engine and each cleaning method, whatever the pixel values.
C6_ConfigureTotal ==
    ret.op \in ConfigureOps => (ret.err = "" /\ ~IsNone(fl.table))

----------------------------------------------------------------------------
(* SpecRT: one band through scale, then back through LePhareOutput.toImage *)

RTKinds == {<<"ramp">>, <<"zero">>, <<"dip">>, <<"ramp", "anti">>, <<"dip", "ramp">>}

\* the column of the scaled band at its valid pixels
RTColumn(b, cn, norm, factor, flat) ==
    [band |-> b, cleaned |-> cn.data, norm |-> norm, factor |-> factor,
     ids |-> flat.indices, vals |-> flat.data[1], image |-> None]

RTScaled(b, cn, norm, factor, sc) ==
    RTColumn(b, cn, norm, factor, ArraysTo1D(<<sc.data>>, <<sc.var>>))

\* lines 455-465 of _LePhareTableFactory for band b: computeMeanMap(maskVal=0),
\* cleanAndNoise, scale
RTForward(b, cn, norm, factor) ==
    /\ cn.err = ""
    /\ rt' = Some(RTScaled(b, cn, norm, factor, Scale(cn.data, cn.var, norm, factor)))

\* flist.scale(...) of band b of the list
RTScale(b, cm, factor, tf) ==
    /\ IsNone(rt)
    /\ b \in 1..Len(fl.filters)
    /\ RTForward(b, CleanAndNoise(fl.filters[b].data, fl.filters[b].data2, fl.filters[b].var,
                                  fl.mask, cm, fl.filters[b].texp, tf),
                 MeanMapOf(fl.filters, fl.mask, 0), factor)
    /\ ret' = Call("scale", "")
    /\ UNCHANGED <<fl, heap, out, age, atLink, made>>

\* LePhareOutput.toImage of that column with the shape, scale factor and
\* normalization map of the forward step
RTToImage ==
    /\ ~IsNone(rt)
    /\ IsNone(Get(rt).image)
    /\ rt' = Some([Get(rt) EXCEPT !.image =
                     LePhareImage(NewOutputOf("LEPHARE", Get(rt).ids, Get(rt).vals),
                                  TupleShape(fl.shape), Get(rt).factor,
                                  Some(Get(rt).norm)).img])
    /\ ret' = Call("toImage", "")
    /\ UNCHANGED <<fl, heap, out, age, atLink, made>>

InitRT == InitOf(Shapes, RTKinds, LAMBDA sh: {NoMask(sh), FirstMask(sh)})

NextRT ==
    \/ \E b \in 1..MaxBands, cm \in CleanMethods, factor \in ScaleFactors, tf \in TexpFacs :
          RTScale(b, cm, factor, tf)
    \/ RTToImage

SpecRT == InitRT /\ [][NextRT]_vars

\* C1: at every valid pixel p, toImage (divide by F, multiply by M[p] where
\* M[p] # 0) of the value scale produced (multiplied by F/M[p] where
\* M[p] # 0) is the cleaned value at p, also where M[p] = 0.
C1_ForwardInverse ==
    (~IsNone(rt) /\ ~IsNone(Get(rt).image)) =>
        \A i \in 1..Len(Get(rt).ids) :
            Get(Get(rt).image)[RowOf(Get(rt).ids[i], fl.shape[2])]
                              [ColOf(Get(rt).ids[i], fl.shape[2])]
              = Get(rt).cleaned[RowOf(Get(rt).ids[i], fl.shape[2])]
                               [ColOf(Get(rt).ids[i], fl.shape[2])]

----------------------------------------------------------------------------
(* Construction of Filter and FilterList from arbitrary inputs             *)

\* raise ShapeError(arr1, arr2, ...): ShapeError.__init__ formats arr1.shape
\* and arr2.shape (AttributeError when arr2 is not an array) and then calls
\* super.__init__ on the builtin super, which raises TypeError
RaiseShapeError(arr2IsArray) == IF arr2IsArray THEN "TypeError" ELSE "AttributeError"

\* Filter.__init__, data, var being what _loadFits returned (None when the
\* file cannot be loaded), data2 None when file2 is None: [err, obj]
FilterInit(name, zpt10, data, var, data2, texp) ==
    IF IsNone(data) \/ IsNone(var) THEN [err |-> "AttributeError", obj |-> None]
    ELSE IF Shape(Get(data)) # Shape(Get(var))
    THEN [err |-> RaiseShapeError(TRUE), obj |-> None]
    ELSE IF ~IsNone(data2) /\ Shape(Get(data)) # Shape(Get(data2))
    THEN [err |-> RaiseShapeError(TRUE), obj |-> None]
    ELSE [err |-> "",
          obj |-> Some(FilterOf(name, zpt10, Get(data), Get(var), data2,
                                IF IsNone(data2) THEN None ELSE texp))]

\* the names of a list of filters
FilterNames(filters) == {filters[i].filter : i \in 1..Len(filters)}

\* FilterList._buildFilters(filters), selfFilters being self.filters when
\* it is called
RECURSIVE BuildFilters(_, _)
BuildFilters(selfFilters, filters) ==
    IF filters = << >> THEN << >>
    ELSE (IF Head(filters).filter \in FilterNames(selfFilters) THEN << >>
          ELSE IF IsNone(Head(filters).data) \/ IsNone(Head(filters).var) THEN << >>
          ELSE <<Head(filters)>>)
         \o BuildFilters(selfFilters, Tail(filters))

\* FilterList._checkFilters: "" or the exception raised
CheckFilters(filters) ==
    IF \E i \in 2..Len(filters) : Shape(filters[i].data) # Shape(filters[1].data)
    THEN RaiseShapeError(FALSE)
    ELSE ""

\* Table(col, names=names, ...) refuses repeated column names
TableOf(r, filters) ==
    IF r.err = "" /\ Cardinality(FilterNames(filters)) # Len(filters)
    THEN [r EXCEPT !.err = "ValueError"]
    ELSE r

NoObject(e, built) == [err |-> e, built |-> built, fl |-> None, heap |-> [a \in Addrs |-> << >>]]

\* FilterList.__init__ after self.filters = self._buildFilters(filters)
FilterListBuilt(built, mask, code, redshift, cleanMethod, scaleFactor, texpFac, r) ==
    IF r.err # "" THEN NoObject(r.err, built)
    ELSE [err |-> "", built |-> built, fl |-> Some(r.fl), heap |-> r.heap]

\* FilterList.__init__: [err, built, fl, heap]; built is self.filters after
\* _buildFilters; arr[mask] with a mask of another shape raises IndexError
FilterListOf(built, mask, code, redshift, cleanMethod, scaleFactor, texpFac) ==
    IF CheckFilters(built) # "" THEN NoObject(CheckFilters(built), built)
    ELSE IF built = << >> THEN NoObject("IndexError", built)
    ELSE IF Shape(mask) # Shape(built[1].data) THEN NoObject("IndexError", built)
    ELSE FilterListBuilt(built, mask, code, redshift, cleanMethod, scaleFactor, texpFac,
                         TableOf(NewFilterList(built, mask, code, redshift, cleanMethod,
                                               scaleFactor, texpFac), built))

FilterListInit(filters, mask, code, redshift, cleanMethod, scaleFactor, texpFac) ==
    FilterListOf(BuildFilters(<< >>, filters), mask, code, redshift, cleanMethod,
                 scaleFactor, texpFac)

----------------------------------------------------------------------------
(* SpecCtor: Filter objects are constructed, then a FilterList from them   *)

CtorShapes == {<<1, MaxW>>, <<MaxH, MaxW>>}
CtorNames  == {"F1", "F2"}
CtorZpt(name) == IF name = "F1" THEN 264 ELSE 239

\* what _loadFits returns for the data, the variance and the file2 of a Filter
LoadedData  == {None} \cup {Some(DataMap("ramp", sh)) : sh \in CtorShapes}
LoadedVar   == {Some(VarMap("one", sh)) : sh \in CtorShapes}
LoadedData2 == {None} \cup {Some(DataMap("anti", sh)) : sh \in CtorShapes}
CtorMasks   == {NoMask(sh) : sh \in CtorShapes} \cup {FirstMask(sh) : sh \in CtorShapes}

FilterMade(pool, data, var, data2, r) ==
    [pool |-> IF r.err = "" THEN Append(pool, Get(r.obj)) ELSE pool,
     last |-> [op |-> "Filter", err |-> r.err, data |-> data, var |-> var,
               data2 |-> data2, obj |-> r.obj]]

\* Filter(name, file, varFile, zeropoint, file2=...)
NewFilter(name, data, var, data2) ==
    /\ Len(made.pool) < MaxBands
    /\ made' = FilterMade(made.pool, data, var, data2,
                          FilterInit(name, CtorZpt(name), data, var, data2, Some(2)))
    /\ ret' = Call("Filter", made'.last.err)
    /\ UNCHANGED <<fl, heap, out, age, atLink, rt>>

ListMade(pool, mask, code, r) ==
    [pool |-> pool,
     last |-> [op |-> "FilterList", err |-> r.err, filters |-> pool, mask |-> mask,
               code |-> code, built |-> r.built, obj |-> r.fl, heap |-> r.heap]]

\* FilterList(filters, mask, code=, redshift=, cleanMethod=) on the Filter
\* objects constructed so far
NewFilterListCall(mask, code, cm) ==
    /\ made' = ListMade(made.pool, mask, code,
                        FilterListInit(made.pool, mask, code, 2, cm, 100, 0))
    /\ ret' = Call("FilterList", made'.last.err)
    /\ fl' = IF made'.last.err = "" THEN Get(made'.last.obj) ELSE fl
    /\ heap' = IF made'.last.err = "" THEN made'.last.heap ELSE heap
    /\ age' = IF made'.last.err = ""
              THEN [table |-> "fresh", meanMap |-> "none", scaleFac |-> "none"]
              ELSE age
    /\ UNCHANGED <<out, atLink, rt>>

InitCtor ==
    /\ fl = None
    /\ heap = [a \in Addrs |-> << >>]
    /\ out = NoOutput
    /\ ret = Call("", "")
    /\ age = [table |-> "none", meanMap |-> "none", scaleFac |-> "none"]
    /\ atLink = None
    /\ rt = None
    /\ made = [pool |-> << >>, last |-> None]

NextCtor ==
    \/ \E name \in CtorNames, data \in LoadedData, var \in LoadedVar, data2 \in LoadedData2 :
          NewFilter(name, data, var, data2)
    \/ \E mask \in CtorMasks, code \in SEDcodes, cm \in CleanMethods :
          NewFilterListCall(mask, code, cm)

SpecCtor == InitCtor /\ [][NextCtor]_vars

\* the last constructor call, when it was a call of op
LastCall(op) == ~IsNone(made.last) /\ made.last.op = op

\* C11: constructing a Filter whose flux and variance maps differ in shape,
\* or whose Poisson-reference map differs in shape from the flux map, fails
\* with ShapeError and produces no Filter.
C11_FilterShapeError ==
    (/\ LastCall("Filter")
     /\ ~IsNone(made.last.data)
     /\ \/ Shape(Get(made.last.data)) # Shape(Get(made.last.var))
        \/ /\ ~IsNone(made.last.data2)
           /\ Shape(Get(made.last.data)) # Shape(Get(made.last.data2)))
    => (made.last.err = "ShapeError" /\ IsNone(made.last.obj))

\* the bands that survive: the first occurrence of every name, in input order
RECURSIVE KeepFirst(_, _)
KeepFirst(filters, seen) ==
    IF filters = << >> THEN << >>
    ELSE IF Head(filters).filter \in seen THEN KeepFirst(Tail(filters), seen)
    ELSE <<Head(filters)>> \o KeepFirst(Tail(filters), seen \cup {Head(filters).filter})

ShapesDiffer(filters, mask) ==
    \/ \E i, j \in 1..Len(filters) : Shape(filters[i].data) # Shape(filters[j].data)
    \/ filters # << >> /\ Shape(mask) # Shape(filters[1].data)

\* C12: constructing a FilterList fails with ShapeError whenever two
\* surviving bands differ in flux shape or the mask differs in shape from the
\* bands, and no FilterList and no table is produced.
C12_ListShapeError ==
    (LastCall("FilterList")
        /\ ShapesDiffer(KeepFirst(made.last.filters, {}), made.last.mask))
    => (made.last.err = "ShapeError" /\ IsNone(made.last.obj))

\* C13: the FilterList built from any input list holds at most one band per
\* name: the first occurrence of each name, in input order.
C13_FirstOccurrenceKept ==
    LastCall("FilterList") =>
        /\ made.last.built = KeepFirst(made.last.filters, {})
        /\ made.last.err = "" => Get(made.last.obj).filters = KeepFirst(made.last.filters, {})

\* C14: constructing a FilterList of which no band survives fails with the
\* ValueError of genTable ('At least one filter must be in the filter
\* list'), not with an error raised earlier in the construction.
C14_EmptyInputError ==
    (LastCall("FilterList") /\ KeepFirst(made.last.filters, {}) = << >>)
    => (made.last.err = "ValueError" /\ IsNone(made.last.obj))

----------------------------------------------------------------------------
(* SpecClean: clean and cleanAndNoise called on their own                  *)

CleanKinds == {<<"ramp">>, <<"anti">>, <<"dip">>, <<"zero">>, <<"hole">>, <<"negl">>,
               <<"negf">>, <<"shot">>, <<"shotnan">>, <<"shot0">>, <<"dip", "negf">>,
               <<"negf", "anti">>}

InitClean ==
    /\ fl = None
    /\ heap = [a \in Addrs |-> << >>]
    /\ out = NoOutput
    /\ ret = Call("", "")
    /\ age = [table |-> "none", meanMap |-> "none", scaleFac |-> "none"]
    /\ atLink = None
    /\ rt = None
    /\ \E sh \in PipeShapes :
       \E filters \in FilterLists(CleanKinds, sh), mask \in FewMasks(sh) :
          made = [filters |-> filters, mask |-> mask,
                  given |-> [filters |-> filters, mask |-> mask], last |-> None]

Cleaned(op, b, method, texpFac, r) ==
    [op |-> op, band |-> b, method |-> method, texpFac |-> texpFac,
     err |-> r.err, data |-> r.data, var |-> r.var]

\* the caller's band after a call that wrote r.data and r.var into deep
\* copies of its maps
KeptBand(f, r) ==
    [f EXCEPT !.data = Deepcopied(f.data, r.data), !.var = Deepcopied(f.var, r.var)]

\* what a helper called on band b returned, and the band after the call
Returned(b, last, r) ==
    /\ made' = [made EXCEPT !.last = Some(last),
                            !.filters[b] = KeptBand(made.filters[b], r)]
    /\ ret' = Call(last.op, last.err)
    /\ UNCHANGED <<fl, heap, out, age, atLink, rt>>

\* FilterList.clean(data, var, mask, method=) on band b
CleanCall(b, method) ==
    /\ b \in 1..Len(made.filters)
    /\ Returned(b, Cleaned("clean", b, method, 0,
                           Clean(made.filters[b].data, made.filters[b].var,
                                 made.mask, method)),
                Clean(made.filters[b].data, made.filters[b].var, made.mask, method))

\* flist.cleanAndNoise(data, data2, var, mask, cleanMethod=, texp=, texpFac=)
\* on band b
CleanAndNoiseCall(b, method, texpFac) ==
    /\ b \in 1..Len(made.filters)
    /\ Returned(b, Cleaned("cleanAndNoise", b, method, texpFac,
                           CleanAndNoise(made.filters[b].data, made.filters[b].data2,
                                         made.filters[b].var, made.mask, method,
                                         made.filters[b].texp, texpFac)),
                CleanAndNoise(made.filters[b].data, made.filters[b].data2,
                              made.filters[b].var, made.mask, method,
                              made.filters[b].texp, texpFac))

\* Filter._mask(arr, mask) on the flux map of band b, and on what it returned
MaskCall(b) ==
    /\ b \in 1..Len(made.filters)
    /\ Returned(b, [op |-> "_mask", band |-> b, err |-> "",
                    once  |-> Mask(made.filters[b].data, made.mask),
                    twice |-> Mask(Mask(made.filters[b].data, made.mask), made.mask)],
                [data |-> Mask(made.filters[b].data, made.mask),
                 var  |-> made.filters[b].var])

NextClean ==
    \/ \E b \in 1..MaxBands, method \in CleanMethods : CleanCall(b, method)
    \/ \E b \in 1..MaxBands, method \in CleanMethods, tf \in TexpFacs :
          CleanAndNoiseCall(b, method, tf)
    \/ \E b \in 1..MaxBands : MaskCall(b)

SpecClean == InitClean /\ [][NextClean]_vars

\* the last helper call, when it was a call of op
Helped(op) == ~IsNone(made.last) /\ Get(made.last).op = op
TheBand == made.filters[Get(made.last).band]

\* C15: the maps clean returns with method ZERO hold no negative value and
\* are both NaN at every masked position.
C15_ZeroCleanNonNegative ==
    (Helped("clean") /\ Get(made.last).method = "ZERO") =>
        /\ Get(made.last).err = ""
        /\ \A p \in Pixels(Shape(made.mask)) :
              /\ ~IsNeg(Get(made.last).data[p[1]][p[2]])
              /\ ~IsNeg(Get(made.last).var[p[1]][p[2]])
              /\ made.mask[p[1]][p[2]] =>
                    (IsNaN(Get(made.last).data[p[1]][p[2]])
                        /\ IsNaN(Get(made.last).var[p[1]][p[2]]))

\* C15 witness: clean with ZERO returned for a band with a masked pixel and
\* an unmasked pixel of negative variance, which it set to 0
C15_Witness ==
    /\ Helped("clean") /\ Get(made.last).method = "ZERO" /\ Get(made.last).err = ""
    /\ \E p \in Pixels(Shape(made.mask)) : made.mask[p[1]][p[2]]
    /\ \E p \in Pixels(Shape(made.mask)) :
          /\ ~made.mask[p[1]][p[2]]
          /\ IsNeg(TheBand.var[p[1]][p[2]]) /\ ~IsNeg(TheBand.data[p[1]][p[2]])
          /\ IsZero(Get(made.last).data[p[1]][p[2]])
          /\ IsZero(Get(made.last).var[p[1]][p[2]])

\* C16: clean with method MIN never raises, also when every unmasked pixel
\* is negative and when every pixel is masked.
C16_MinCleanTotal ==
    (Helped("clean") /\ Get(made.last).method = "MIN") => Get(made.last).err = ""

\* the non-negative, non-missing entries of a map
NonNegEntries(m) ==
    Take(Flatten(m), [k \in 1..Size(Shape(m)) |->
                        ~IsNaN(Flatten(m)[k]) /\ ~IsNeg(Flatten(m)[k])])

\* C17: with method MIN the value that replaces the negative entries of a
\* band is the minimum of the non-negative, non-missing entries of that
\* band's masked flux map (whatever the variance there), computed from that
\* band alone.
C17_MinOfTheBand ==
    (/\ Helped("clean") /\ Get(made.last).method = "MIN" /\ Get(made.last).err = ""
     /\ NonNegEntries(Mask(TheBand.data, made.mask)) # << >>)
    => \A p \in Pixels(Shape(made.mask)) :
          (~made.mask[p[1]][p[2]]
              /\ (IsNeg(TheBand.data[p[1]][p[2]]) \/ IsNeg(TheBand.var[p[1]][p[2]])))
          => /\ Get(made.last).data[p[1]][p[2]]
                   = NanMin(NonNegEntries(Mask(TheBand.data, made.mask)))
             /\ Get(made.last).var[p[1]][p[2]]
                   = NanMin(NonNegEntries(Mask(TheBand.data, made.mask)))

\* |poissonRef| * poissonFactor / exposureTime added to a variance map
WithShotNoise(var, data2, texp, texpFac) ==
    Matrix(Shape(var), LAMBDA r, c:
        Add(var[r][c], Div(Mul(AbsV(data2[r][c]), R(texpFac)), R(texp))))

\* C18: cleanAndNoise returns the cleaned variance plus
\* |poissonRef| * poissonFactor / exposureTime when a reference map and an
\* exposure time are both available and the factor is not 0, and in every
\* other case the cleaned variance unchanged, without raising (stated for
\* the positive exposure times a band is meant to carry).
C18_ShotNoiseOnce ==
    (/\ Helped("cleanAndNoise")
     /\ Clean(TheBand.data, TheBand.var, made.mask, Get(made.last).method).err = ""
     /\ (IsNone(TheBand.texp) \/ Get(TheBand.texp) > 0))
    => /\ Get(made.last).err = ""
       /\ Get(made.last).data
             = Clean(TheBand.data, TheBand.var, made.mask, Get(made.last).method).data
       /\ Get(made.last).var
             = IF ~IsNone(TheBand.data2) /\ ~IsNone(TheBand.texp)
                    /\ Get(made.last).texpFac # 0
               THEN WithShotNoise(Clean(TheBand.data, TheBand.var, made.mask,
                                        Get(made.last).method).var,
                                  Get(TheBand.data2), Get(TheBand.texp),
                                  Get(made.last).texpFac)
               ELSE Clean(TheBand.data, TheBand.var, made.mask, Get(made.last).method).var

----------------------------------------------------------------------------
(* The tables of the two engines, under SpecPipe                           *)

HasCol(t, name) == \E i \in 1..Len(t.names) : t.names[i] = name

\* the pixel a row identifier names
PixelOf(f, id) == <<RowOf(id, f.shape[2]), ColOf(id, f.shape[2])>>

\* band b has a zero flux or a zero variance at the pixel a row names; a
\* zero stays a zero through cleaning and scaling
ZeroAt(f, b, id) ==
    \/ IsZero(f.filters[b].data[PixelOf(f, id)[1]][PixelOf(f, id)[2]])
    \/ IsZero(f.filters[b].var[PixelOf(f, id)[1]][PixelOf(f, id)[2]])

\* the (value, error) entries of a band in row i are both -99
SentinelAt(t, name, i) ==
    /\ Col(t, ColName(name, ""))[i] = R(-99)
    /\ Col(t, ColName(name, "e_"))[i] = R(-99)

\* C19: a list configured for LePhare has a LePhare table in which, for every
\* band and every row whose flux or variance for that band is exactly 0,
\* the value and the error entry of that band are both the sentinel -99.
C19_ZeroGivesSentinel ==
    (ret.op \in ConfigureOps /\ fl.code = "LEPHARE") =>
        /\ ~IsNone(fl.table)
        /\ HasCol(Get(fl.table), ColName("ID", ""))
        /\ \A b \in 1..Len(fl.filters), i \in 1..Len(Col(Get(fl.table), ColName("ID", ""))) :
              ZeroAt(fl, b, Col(Get(fl.table), ColName("ID", ""))[i])
                 => SentinelAt(Get(fl.table), fl.filters[b].filter, i)

\* the names of the (value, error) column pairs, in band order
PairNames(f, valueAffix, errorAffix) ==
    Interleave([b \in 1..Len(f.filters) |-> ColName(f.filters[b].filter, valueAffix)],
               [b \in 1..Len(f.filters) |-> ColName(f.filters[b].filter, errorAffix)])

\* every column has n rows
AllOfLength(t, n) == \A k \in 1..Len(t.cols) : Len(t.cols[k]) = n

Constant(col, v) == \A i \in 1..Len(col) : col[i] = v

\* the layout of an Engine B table
CigaleLayout(f, t) ==
    /\ t.names = <<ColName("id", ""), ColName("redshift", "")>> \o PairNames(f, "", "_err")
    /\ Len(t.cols) = Len(t.names)
    /\ IdsInOrder(f, Ids(t))
    /\ AllOfLength(t, Len(Ids(t)))
    /\ Constant(Col(t, ColName("redshift", "")), f.redshift)

\* the layout of an Engine A table
LePhareLayout(f, t) ==
    /\ t.names = <<ColName("ID", "")>> \o PairNames(f, "", "e_")
                    \o <<ColName("Context", ""), ColName("zs", "")>>
    /\ Len(t.cols) = Len(t.names)
    /\ IdsInOrder(f, Col(t, ColName("ID", "")))
    /\ AllOfLength(t, Len(Col(t, ColName("ID", ""))))
    /\ Constant(Col(t, ColName("Context", "")), 2 ^ Len(f.filters) - 1)
    /\ Constant(Col(t, ColName("zs", "")), f.redshift)

\* C20: after a configure call the table has the layout of the engine the
\* list is configured for: an identifier column of pixel positions, one
\* (value, error) column pair per band in band order and named after the
\* band, for Engine A a context column of 2^n - 1 and a redshift column, for
\* Engine B one redshift column and no context column, and as many rows in
\* every column as in the identifier column.
C20_TableLayout ==
    ret.op \in ConfigureOps =>
        /\ ~IsNone(fl.table)
        /\ IF fl.code = "LEPHARE" THEN LePhareLayout(fl, Get(fl.table))
           ELSE CigaleLayout(fl, Get(fl.table))

\* the Engine B half of C20, which the code does satisfy
CigaleTableLayout ==
    (ret.op \in ConfigureOps /\ ret.err = "" /\ fl.code = "CIGALE")
        => CigaleLayout(fl, Get(fl.table))

\* the first band is processed to a non-missing flux and variance at pixel
\* p whatever the cleaning method: unmasked, present and non-negative there,
\* with no Poisson reference to add
FirstBandKept(f, p) ==
    /\ ~f.mask[p[1]][p[2]]
    /\ ~IsNaN(f.filters[1].data[p[1]][p[2]]) /\ ~IsNeg(f.filters[1].data[p[1]][p[2]])
    /\ ~IsNaN(f.filters[1].var[p[1]][p[2]]) /\ ~IsNeg(f.filters[1].var[p[1]][p[2]])
    /\ IsNone(f.filters[1].data2)

\* the row-major position of a pixel is one of the identifiers
HasRow(f, t, p) ==
    \E i \in 1..Len(Ids(t)) : Ids(t)[i] = Pos(f.shape, p[1], p[2]) - 1

\* C21: the identifier column holds the positions at which the first band's
\* processed flux and variance are both non-missing; a missing value of a
\* later band at such a position does not remove the row.
C21_FirstBandIndex ==
    ~IsNone(fl.table) =>
        \A p \in Pixels(fl.shape) :
            FirstBandKept(fl, p) => HasRow(fl, Get(fl.table), p)

----------------------------------------------------------------------------
(* photometry.py: counts, magnitudes and fluxes                            *)

\* A count or a flux is c * 10^(e/25) with c rational and e an integer, so
\* that the powers of ten of the conversions are exact for zeropoints given
\* in tenths of a magnitude.  A magnitude is tenths/10 - 2.5*log10(log).
\* A non-finite float (nan, inf) is kept as NaN; zero and NaN carry e = 0.
Sci(c, e) == [c |-> c, e |-> IF c[1] = 0 THEN 0 ELSE e]
SciMul(a, b) == Sci(Mul(a.c, b.c), a.e + b.e)
SciDiv(a, b) == Sci(Div(a.c, b.c), a.e - b.e)

\* -2.5 * np.log10(data) + zeropoint
MagOf(data, zpt10) ==
    IF IsNaN(data.c) \/ data.c[1] <= 0 THEN [tenths |-> 0, log |-> NaN]
    ELSE [tenths |-> zpt10 - data.e, log |-> data.c]

\* photometry.countToMag: [mag, emag]
countToMag(data, err, zpt10) ==
    [mag  |-> MagOf(data, zpt10),
     emag |-> SciDiv(SciMul(Sci(<<27, 25>>, 0), err), data)]

\* MagTocount returning data * emag, without the division by 1.08
MagTocountNoFactor(mag, emag, zpt10) ==
    [data |-> Sci(mag.log, zpt10 - mag.tenths),
     err  |-> SciMul(Sci(mag.log, zpt10 - mag.tenths), emag)]

\* photometry.MagTocount: [data, err]
MagTocount(mag, emag, zpt10) ==
    [data |-> Sci(mag.log, zpt10 - mag.tenths),
     err  |-> SciDiv(SciMul(Sci(mag.log, zpt10 - mag.tenths), emag), Sci(<<27, 25>>, 0))]

\* photometry.countToFlux, in erg/(s*Hz*cm^2): [flux, eflux]
countToFlux(data, err, zpt10) ==
    [flux  |-> SciMul(data, Sci(R(1), -(zpt10 + 486))),
     eflux |-> SciMul(err,  Sci(R(1), -(zpt10 + 486)))]

\* photometry.FluxToCount: [count, err]; both are flux * fac
FluxToCount(flux, eflux, zpt10) ==
    [count |-> SciMul(flux, Sci(R(1), zpt10 + 486)),
     err   |-> SciMul(flux, Sci(R(1), zpt10 + 486))]

----------------------------------------------------------------------------
(* SpecPhot: a value and its error through a conversion and back           *)

PhotValues == {Sci(R(n), e) : n \in {-1, 0, 1, 2, 3}, e \in {-1, 0, 2}}
PhotSigmas == {Sci(R(n), e) : n \in {0, 1, 5}, e \in {0, 1}}
PhotZpts   == {0, 239, 264}

InitPhot ==
    /\ fl = None
    /\ heap = [a \in Addrs |-> << >>]
    /\ out = NoOutput
    /\ ret = Call("", "")
    /\ age = [table |-> "none", meanMap |-> "none", scaleFac |-> "none"]
    /\ atLink = None
    /\ rt = None
    /\ \E value \in PhotValues, sigma \in PhotSigmas, zpt \in PhotZpts :
          made = [value |-> value, sigma |-> sigma, zpt |-> zpt, last |-> None]

\* what a conversion returned and what the inverse made of it
Converted(op, there, back) == [op |-> op, there |-> there, back |-> back]

\* MagTocount(*countToMag(value, sigma, zeropoint), zeropoint)
MagRoundTrip ==
    /\ made' = [made EXCEPT !.last =
                  Some(Converted("countToMag",
                          countToMag(made.value, made.sigma, made.zpt),
                          MagTocount(countToMag(made.value, made.sigma, made.zpt).mag,
                                     countToMag(made.value, made.sigma, made.zpt).emag,
                                     made.zpt)))]
    /\ ret' = Call("MagTocount", "")
    /\ UNCHANGED <<fl, heap, out, age, atLink, rt>>

\* FluxToCount(*countToFlux(value, sigma, zeropoint), zeropoint)
FluxRoundTrip ==
    /\ made' = [made EXCEPT !.last =
                  Some(Converted("countToFlux",
                          countToFlux(made.value, made.sigma, made.zpt),
                          FluxToCount(countToFlux(made.value, made.sigma, made.zpt).flux,
                                      countToFlux(made.value, made.sigma, made.zpt).eflux,
                                      made.zpt)))]
    /\ ret' = Call("FluxToCount", "")
    /\ UNCHANGED <<fl, heap, out, age, atLink, rt>>

NextPhot == MagRoundTrip \/ FluxRoundTrip

SpecPhot == InitPhot /\ [][NextPhot]_vars

\* C22: for every value > 0 and sigma >= 0, MagTocount of what countToMag
\* returned gives back the value and the error.
C22_MagRoundTrip ==
    (Helped("countToMag") /\ made.value.c[1] > 0 /\ made.sigma.c[1] >= 0) =>
        /\ Get(made.last).back.data = made.value
        /\ Get(made.last).back.err = made.sigma

\* C22 witness: a value that is not a power of ten with a non-zero error and
\* a non-zero zeropoint went to a magnitude and came back
C22_Witness ==
    /\ Helped("countToMag")
    /\ made.value = Sci(R(3), 2) /\ made.sigma = Sci(R(5), 1) /\ made.zpt = 239
    /\ Get(made.last).there.mag = [tenths |-> 237, log |-> R(3)]
    /\ Get(made.last).back.err = Sci(R(5), 1)

\* C23: for every value and sigma, FluxToCount of what countToFlux returned
\* gives back the value as the count and sigma as the error.
C23_FluxRoundTrip ==
    Helped("countToFlux") =>
        /\ Get(made.last).back.count = made.value
        /\ Get(made.last).back.err = made.sigma

----------------------------------------------------------------------------
(* Frame properties of the helpers, under SpecClean                        *)

\* C24: Filter._mask is idempotent: masking what _mask returned with the same
\* mask gives the same content, which is missing at the positions of the
\* mask and equal to the input elsewhere.
C24_MaskIdempotent ==
    Helped("_mask") =>
        /\ Get(made.last).twice = Get(made.last).once
        /\ \A p \in Pixels(Shape(made.mask)) :
              Get(made.last).once[p[1]][p[2]] =
                 IF made.mask[p[1]][p[2]] THEN NaN
                 ELSE made.given.filters[Get(made.last).band].data[p[1]][p[2]]

\* C24 witness: _mask was applied twice to a map with a missing value under
\* a mask that covers it and leaves another pixel
C24_Witness ==
    /\ Helped("_mask")
    /\ \E p, q \in Pixels(Shape(made.mask)) :
          /\ made.mask[p[1]][p[2]] /\ IsNaN(TheBand.data[p[1]][p[2]])
          /\ ~made.mask[q[1]][q[2]] /\ ~IsNaN(Get(made.last).twice[q[1]][q[2]])

C28_ZeroKeepsNonNegative ==
    (Helped("clean") /\ Get(made.last).method = "ZERO" /\ Get(made.last).err = "") =>
        \A p \in Pixels(Shape(made.mask)) :
            ~made.mask[p[1]][p[2]] =>
                /\ (~IsNeg(TheBand.data[p[1]][p[2]]) /\ ~IsNaN(TheBand.data[p[1]][p[2]]))
                      => Get(made.last).data[p[1]][p[2]] = TheBand.data[p[1]][p[2]]
                /\ (~IsNeg(TheBand.var[p[1]][p[2]]) /\ ~IsNaN(TheBand.var[p[1]][p[2]]))
                      => Get(made.last).var[p[1]][p[2]] = TheBand.var[p[1]][p[2]]

----------------------------------------------------------------------------
(* SpecCfg: configure calls, some of them failing, and toCatalogue         *)

CodeArgs == SEDcodes \cup {"sedcode"}   \* "sedcode": a str, not a SEDcode
Fnames   == {"galaxy"}
CfgKinds == {<<"ramp">>, <<"dip">>, <<"ramp", "anti">>}

InitCfg == InitOf(PipeShapes, CfgKinds, LAMBDA sh: {NoMask(sh), FirstMask(sh)})

\* a catalogue method returned or raised
Catalogued(res, op) ==
    /\ made' = res.cat
    /\ ret' = Call(op, res.err)
    /\ UNCHANGED <<fl, heap, out, age, atLink, rt>>

\* flist.toCatalogue(fname)
ToCatalogue(fname) == Catalogued(ToCatalogueOf(fl, fname), "toCatalogue")
\* flist._toCigaleCat(fname)
ToCigaleCat(fname) == Catalogued(ToCigaleCatOf(fl, fname), "_toCigaleCat")
\* flist._toLePhareCat(fname)
ToLePhareCat(fname) == Catalogued(ToLePhareCatOf(fl, fname), "_toLePhareCat")

NextCfg ==
    \/ \E code \in CodeArgs, cm \in CleanMethods : SetCode(code, cm, 100, 0)
    \/ \E cm \in CleanMethods : GenTable(cm, 100, 0)
    \/ \E maskVal \in MaskVals : ComputeMeanMap(maskVal)
    \/ \E fname \in Fnames : ToCatalogue(fname)
    \/ \E fname \in Fnames : ToCigaleCat(fname)
    \/ \E fname \in Fnames : ToLePhareCat(fname)

SpecCfg == InitCfg /\ [][NextCfg]_vars

\* C25: a configure call that fails (setCode with a value that is not a
\* SEDcode, or genTable raising part-way through) leaves code, table, meanMap
\* and scaleFac as they were before the call.
C25_FailedConfigureKeepsState ==
    [][(ret'.op \in ConfigureOps /\ ret'.err # "") =>
          /\ fl'.code = fl.code
          /\ fl'.table = fl.table
          /\ Deref(heap', fl'.meanMap) = Deref(heap, fl.meanMap)
          /\ fl'.scaleFac = fl.scaleFac]_vars

\* the type of catalogue of an engine
CatKind(code) == IF code = "LEPHARE" THEN "LePhareCat" ELSE "CigaleCat"

FirstBandFinite(f) ==
    \A p \in Pixels(f.shape) :
        ~f.mask[p[1]][p[2]] =>
            (~IsNaN(f.filters[1].data[p[1]][p[2]]) /\ ~IsNaN(f.filters[1].var[p[1]][p[2]]))

\* C29: a list configured for LePhare whose first band is finite at the
\* retained pixels has a LePhare table in which every value and error entry
\* is a finite number or the sentinel -99, never missing.
C29_FiniteOrSentinel ==
    (ret.op \in ConfigureOps /\ fl.code = "LEPHARE" /\ FirstBandFinite(fl)) =>
        /\ ~IsNone(fl.table)
        /\ HasCol(Get(fl.table), ColName("Context", ""))
        /\ \A b \in 1..Len(fl.filters), i \in 1..Len(Col(Get(fl.table), ColName("ID", ""))) :
              /\ ~IsNaN(Col(Get(fl.table), ColName(fl.filters[b].filter, ""))[i])
              /\ ~IsNaN(Col(Get(fl.table), ColName(fl.filters[b].filter, "e_"))[i])

----------------------------------------------------------------------------
(* sed.py: the working directory across CigaleSED.__call__ and             *)
(* LePhareSED.__call__                                                     *)

\* A directory is the sequence of names from the root; an identifier is the
\* relative path f'{self.id}' names ('gal', 'runs/gal').
Home     == <<"work">>
RunIds   == {<<"gal">>, <<"runs", "gal">>}
Engines  == {"CigaleSED", "LePhareSED"}
CatKinds == {"CigaleCat", "LePhareCat"}

\* how an external step ends in SED.startProcess: it returns, the executable
\* is not found (OSError), or its return code is not 0 (OSError)
Outcomes == {"ok", "notfound", "nonzero"}

Parent(path) == SubSeq(path, 1, Len(path) - 1)

\* a step of the call: [err, cwd, dirs]
RunState(err, cwd, dirs) == [err |-> err, cwd |-> cwd, dirs |-> dirs]

\* os.chdir(directory); self.start...(log=log); os.chdir('..')
FitIn(cwd, dirs, id, fit) ==
    IF fit # "ok" THEN RunState("OSError", cwd \o id, dirs)
    ELSE RunState("", Parent(cwd \o id), dirs)

\* the call once the run directory exists: the model generation steps of
\* LePhareSED run before the change of directory
RunIn(engine, cwd, dirs, id, pre, fit) ==
    IF engine = "LePhareSED" /\ pre # "ok" THEN RunState("OSError", cwd, dirs)
    ELSE FitIn(cwd, dirs, id, fit)

\* CigaleSED.__call__ / LePhareSED.__call__ from the working directory cwd
RunOf(engine, cat, cwd, dirs, id, pre, fit) ==
    IF cat # (IF engine = "CigaleSED" THEN "CigaleCat" ELSE "LePhareCat")
    THEN RunState("TypeError", cwd, dirs)
    ELSE IF cwd \o id \in dirs THEN RunIn(engine, cwd, dirs, id, pre, fit)
    \* os.mkdir of a path whose parent does not exist
    ELSE IF Parent(cwd \o id) \notin dirs THEN RunState("FileNotFoundError", cwd, dirs)
    ELSE RunIn(engine, cwd, dirs \cup {cwd \o id}, id, pre, fit)

InitRun ==
    /\ fl = None
    /\ heap = [a \in Addrs |-> << >>]
    /\ out = NoOutput
    /\ ret = Call("", "")
    /\ age = [table |-> "none", meanMap |-> "none", scaleFac |-> "none"]
    /\ atLink = None
    /\ rt = None
    /\ made = [cwd |-> Home, dirs |-> {Home, Home \o <<"runs">>}, last |-> None]

\* sed(catalogue) for an SED object of the given engine and identifier
Run(engine, cat, id, pre, fit) ==
    /\ Len(made.cwd \o id) <= MaxDepth
    /\ made' = [cwd  |-> RunOf(engine, cat, made.cwd, made.dirs, id, pre, fit).cwd,
                dirs |-> RunOf(engine, cat, made.cwd, made.dirs, id, pre, fit).dirs,
                last |-> Some([op |-> engine, id |-> id, fit |-> fit, from |-> made.cwd,
                               err |-> RunOf(engine, cat, made.cwd, made.dirs, id,
                                             pre, fit).err])]
    /\ ret' = Call("__call__", Get(made'.last).err)
    /\ UNCHANGED <<fl, heap, out, age, atLink, rt>>

NextRun ==
    \E engine \in Engines, cat \in CatKinds, id \in RunIds, pre \in Outcomes, fit \in Outcomes :
        Run(engine, cat, id, pre, fit)

SpecRun == InitRun /\ [][NextRun]_vars

\* C30: running a fit leaves the working directory as it was before the
\* call, when the external engine succeeds and when an external step fails,
\* for every identifier used as the run directory name.
C30_WorkingDirectoryKept ==
    ~IsNone(made.last) => made.cwd = Get(made.last).from

====
